---- MODULE Spec2Model ----
(***************************************************************************)
(* s3Backup: a command-line tool that copies a local file or directory     *)
(* tree to an S3 bucket, skipping files whose remote copy is equivalent.   *)
(*                                                                         *)
(* Strings (paths, URLs, keys) are sequences of tokens.  A token is one    *)
(* character ("/", "x", "?", "#", "%"), a file name ("a", "b", "c", "l",   *)
(* ".DS_Store", ...), the URL scheme prefix ("s3://", "gs://") or the      *)
(* percent-escape "%2F" (three characters that url.Parse decodes to "/").  *)
(* The letters used in destinations are not hexadecimal digits, so a bare  *)
(* "%" is always an invalid escape.                                        *)
(*                                                                         *)
(* The specifications differ in their first states and in what happens     *)
(* around the tool: Spec, SpecPaths and SpecTags run it on one file; in    *)
(* SpecWalk the trees hold links, devices, reserved names and an empty     *)
(* file; in SpecRecover a run can be interrupted; in SpecRace another      *)
(* process rewrites files.                                                 *)
(***************************************************************************)
EXTENDS Integers, Sequences, FiniteSets, TLC

\* ------------------------------------------------------------------ bounds
MaxDestLen == 4
MaxTags == 2
MaxRuns == 2
MaxLinks == 2
MaxChunk == 2

\* ----------------------------------------------------------- string helpers
HasPrefix(s, p) == Len(s) >= Len(p) /\ SubSeq(s, 1, Len(p)) = p

HasSuffix(s, p) == Len(s) >= Len(p) /\ SubSeq(s, Len(s) - Len(p) + 1, Len(s)) = p

\* position of the first token c of s, 0 when there is none
IndexOf(s, c) ==
  IF \E i \in 1..Len(s) : s[i] = c
  THEN CHOOSE i \in 1..Len(s) : s[i] = c /\ \A j \in 1..(i - 1) : s[j] # c
  ELSE 0

\* position of the last token c of s, 0 when there is none
LastIndexOf(s, c) ==
  IF \E i \in 1..Len(s) : s[i] = c
  THEN CHOOSE i \in 1..Len(s) : s[i] = c /\ \A j \in (i + 1)..Len(s) : s[j] # c
  ELSE 0

\* strings.Cut: the part of s before the first c (all of s when c is absent)
CutBefore(s, c) == IF IndexOf(s, c) = 0 THEN s ELSE SubSeq(s, 1, IndexOf(s, c) - 1)

\* strings.Cut: the part of s after the first c (empty when c is absent)
CutAfter(s, c) == IF IndexOf(s, c) = 0 THEN <<>> ELSE SubSeq(s, IndexOf(s, c) + 1, Len(s))

\* all strings over alphabet A of length at most n
RECURSIVE StringsUpTo(_, _)
StringsUpTo(A, n) ==
  IF n = 0 THEN {<<>>}
  ELSE LET shorter == StringsUpTo(A, n - 1)
       IN  shorter \cup {Append(s, c) : s \in shorter, c \in A}

\* ------------------------------------------------------------- net/url.Parse
\* url.unescape: a "%" not followed by two hexadecimal digits is an error
HasBadEscape(s) == \E i \in 1..Len(s) : s[i] = "%"

\* url.unescape in path mode: every valid escape is replaced by its character
Unescape(s) == [i \in 1..Len(s) |-> IF s[i] = "%2F" THEN "/" ELSE s[i]]

\* url.parseHost: any escape in the host other than %25 or a non-ASCII byte is
\* rejected, so neither "%" nor "%2F" may occur in it
HostInvalid(h) == \E i \in 1..Len(h) : h[i] \in {"%", "%2F"}

\* url.Parse of a destination that starts with the scheme token: the fragment
\* is cut at the first "#", the query at the first "?", the authority ends at
\* the first "/", and the rest is the path, percent-decoded.
ParseURL(destination) ==
  LET raw       == Tail(destination)
      u         == CutBefore(raw, "#")
      frag      == CutAfter(raw, "#")
      rest      == CutBefore(u, "?")
      slash     == IndexOf(rest, "/")
      authority == IF slash = 0 THEN rest ELSE SubSeq(rest, 1, slash - 1)
      rawPath   == IF slash = 0 THEN <<>> ELSE SubSeq(rest, slash, Len(rest))
  IN  [err  |-> HostInvalid(authority) \/ HasBadEscape(rawPath) \/ HasBadEscape(frag),
       Host |-> authority,
       Path |-> Unescape(rawPath)]

\* ------------------------------------------------------- local file system
\* The local tree maps a node (the sequence of names from the working
\* directory, which is also the root directory) to what is there.
LocalFile == [kind |-> "file", size |-> 1, modTime |-> "t1", hash |-> "h1"]

Dir == [kind |-> "dir"]

\* /a/b is a regular file
TreeFile == (<<>> :> Dir) @@ (<<"a">> :> Dir) @@ (<<"a", "b">> :> LocalFile)

\* /a/b is a directory that holds the regular file c
TreeDir ==
  (<<>> :> Dir) @@ (<<"a">> :> Dir) @@ (<<"a", "b">> :> Dir)
    @@ (<<"a", "b", "c">> :> LocalFile)

\* a symbolic link to the node named by target
Symlink(target) == [kind |-> "symlink", target |-> target]

\* a device, socket or named pipe: info.Mode()&os.ModeType is not zero
Device == [kind |-> "device"]

\* the names a directory listing can hold, in os.ReadDir's (sorted) order
NameOrder == <<"$RECYCLE.BIN", ".DS_Store", "a", "b", "c", "d", "desktop.ini", "l", "p">>

\* the names of a path: its parts between slashes, empty parts dropped
RECURSIVE Components(_)
Components(p) ==
  IF p = <<>> THEN <<>>
  ELSE IF Head(p) = "/" THEN Components(Tail(p))
  ELSE <<Head(p)>> \o Components(Tail(p))

\* path resolution of the kernel: from the directory node at, through the
\* names rest, following every symbolic link met (the last one too), at most
\* links of them: err is "notexist" (ENOENT), "other" (ENOTDIR: something
\* that is no directory used as one; ELOOP: too many links) or "none"
RECURSIVE Resolve(_, _, _, _)
Resolve(tree, at, rest, links) ==
  IF rest = <<>> THEN [err |-> "none", node |-> at]
  ELSE IF tree[at].kind # "dir" THEN [err |-> "other", node |-> <<>>]
  ELSE LET next == Append(at, Head(rest))
       IN  IF next \notin DOMAIN tree THEN [err |-> "notexist", node |-> <<>>]
           ELSE IF tree[next].kind = "symlink"
             THEN IF links = 0 THEN [err |-> "other", node |-> <<>>]
                  ELSE Resolve(tree, <<>>, tree[next].target \o Tail(rest), links - 1)
           ELSE Resolve(tree, next, Tail(rest), links)

\* os.Stat: follows symbolic links; a trailing slash asks for a directory
Stat(tree, p) ==
  LET found == Resolve(tree, <<>>, Components(p), MaxLinks)
  IN  IF p = <<>> THEN [err |-> "notexist", node |-> <<>>]
      ELSE IF found.err # "none" THEN found
      ELSE IF HasSuffix(p, <<"/">>) /\ tree[found.node].kind # "dir"
        THEN [err |-> "other", node |-> <<>>]
      ELSE found

\* os.ReadDir: the names in the directory the path leads to, sorted
ReadDir(tree, p) ==
  SelectSeq(NameOrder, LAMBDA n : Append(Stat(tree, p).node, n) \in DOMAIN tree)

\* ------------------------------------------------------------------- package path
RECURSIVE TrimSlashes(_)
TrimSlashes(p) ==
  IF p # <<>> /\ p[Len(p)] = "/" THEN TrimSlashes(SubSeq(p, 1, Len(p) - 1)) ELSE p

\* mutant of Base: the whole path instead of its last element
Base_WholePath(p) == p

\* path.Base: the last element of the path, trailing slashes removed first
Base(p) ==
  IF p = <<>> THEN <<".">>
  ELSE LET q == TrimSlashes(p)
       IN  IF q = <<>> THEN <<"/">>
           ELSE SubSeq(q, LastIndexOf(q, "/") + 1, Len(q))

RECURSIVE JoinNames(_)
JoinNames(names) ==
  IF names = <<>> THEN <<>>
  ELSE IF Len(names) = 1 THEN <<names[1]>>
  ELSE <<names[1], "/">> \o JoinNames(Tail(names))

\* path.Clean for paths without "." and ".." elements: repeated slashes
\* become one and a trailing slash is dropped
Clean(p) ==
  LET body == JoinNames(Components(p))
  IN  IF p = <<>> THEN <<".">>
      ELSE IF p[1] = "/" THEN <<"/">> \o body
      ELSE body

\* path.Join(dir, name)
Join(dir, name) == IF dir = <<>> THEN Clean(<<name>>) ELSE Clean(dir \o <<"/", name>>)

\* ------------------------------------------------------------ SanitizePaths
\* mutant of InvalidCopyTarget: a directory's contents may go to a single key
InvalidCopyTarget_Never(s3IsDir, srcIsDir) == FALSE

\* "Cannot copy contents of directory": the source ends in "/" and the key
\* does not
InvalidCopyTarget(s3IsDir, srcIsDir) == ~s3IsDir /\ srcIsDir

\* exit is TRUE when SanitizePaths calls os.Exit(1)
SanitizePaths(tree, source, destination) ==
  LET s3Url    == ParseURL(destination)
      s3IsDir  == HasSuffix(s3Url.Path, <<"/">>)
      srcIsDir == HasSuffix(source, <<"/">>)
      rejected == [exit |-> TRUE, s3Bucket |-> <<>>, s3Key |-> <<>>, srcFile |-> <<>>]
  IN  IF ~HasPrefix(destination, <<"s3://">>) THEN rejected
      ELSE IF Stat(tree, source).err = "notexist" THEN rejected
      ELSE IF s3Url.err THEN rejected
      ELSE IF Len(s3Url.Host) <= 0 THEN rejected
      ELSE IF s3IsDir /\ srcIsDir
        THEN [exit |-> FALSE, s3Bucket |-> s3Url.Host,
              s3Key |-> SubSeq(s3Url.Path, 1, Len(s3Url.Path) - 1),
              srcFile |-> SubSeq(source, 1, Len(source) - 1)]
      ELSE IF s3IsDir
        THEN [exit |-> FALSE, s3Bucket |-> s3Url.Host,
              s3Key |-> s3Url.Path \o Base(source), srcFile |-> source]
      ELSE IF InvalidCopyTarget(s3IsDir, srcIsDir) THEN rejected
      ELSE [exit |-> FALSE, s3Bucket |-> s3Url.Host,
            s3Key |-> s3Url.Path, srcFile |-> source]

\* ------------------------------------------------------------ the S3 bucket
\* What a key of the bucket holds: nothing, a delete marker, or an object
\* with its size, its "sha256" user metadata ("none" when it has none) and
\* its tag set, a list of [Key, Value] pairs.
Absent == [state |-> "absent"]

Marker == [state |-> "marker"]

Object(size, sha, tags) == [state |-> "object", size |-> size, sha256 |-> sha, tags |-> tags]

Tag(k, v) == [Key |-> k, Value |-> v]

TagUniverse ==
  {Tag("modified-timestamp", "t1"), Tag("modified-timestamp", "t2"), Tag("owner", "o"),
   Tag("env", "e")}

\* S3 tag sets hold a key at most once
TagSets ==
  {ts \in StringsUpTo(TagUniverse, MaxTags) :
     \A i, j \in 1..Len(ts) : ts[i].Key = ts[j].Key => i = j}

\* every content a key may have before the first run
AnyContent ==
  {Absent, Marker}
    \cup {Object(size, sha, tags) : size \in {1, 2}, sha \in {"none", "h1", "h2"},
                                    tags \in TagSets}

\* a few contents: nothing, a delete marker, and objects that match the local
\* file in its size, its hash or its time, or in none of them
FewContents ==
  {Absent, Marker,
   Object(1, "none", <<Tag("modified-timestamp", "t1")>>),
   Object(1, "h1", <<Tag("owner", "o")>>),
   Object(1, "h2", <<Tag("modified-timestamp", "t2")>>),
   Object(2, "h1", <<Tag("modified-timestamp", "t1")>>)}

\* tag lists as a GetObjectTagging response can carry them: a key may repeat
RawTagSets ==
  StringsUpTo({Tag("modified-timestamp", "t1"), Tag("modified-timestamp", "t2"),
               Tag("owner", "o")}, MaxTags)

\* objects of the local size with any such tag list
RawContents ==
  {Absent} \cup {Object(1, sha, tags) : sha \in {"none", "h1"}, tags \in RawTagSets}

VARIABLES
  args,            \* the positional command-line arguments
  forceHashCheck,  \* the -force-hash flag
  fs,              \* the local file tree
  seeds,           \* what the bucket may hold before the first run: "any", "few",
                   \* "empty", or "raw" (tag lists as a response can carry them)
  goos,            \* runtime.GOOS of the build
  bucket,          \* keys of the bucket observed or written so far -> content
  pc,              \* where the program is
  stack,           \* pending calls of Upload, the next one first
  task,            \* the locals of the current (or last) call of UploadFile
  cfgErr,          \* whether loading the AWS configuration failed in this run
  target,          \* what SanitizePaths returned to main in this run
  exitCode,        \* -1 while running, then the exit code of the process
  run,             \* how many times the tool has been started
  issued,          \* store operations issued so far: <<run, operation, key>>
  log,             \* what the walk did with each path: [run, event, path]
  reader,          \* the ProgressTrackingReader of the upload in progress
  failed,          \* store operations that failed: <<run, operation, key>>
  faulty           \* runs in which the start, a probe, a local read or listing,
                   \* or a put failed

vars ==
  <<args, forceHashCheck, fs, seeds, goos, bucket, pc, stack, task, cfgErr, target, exitCode,
    run, issued, log, reader, failed, faulty>>

\* what the tool itself never changes
inputs == <<args, forceHashCheck, fs, seeds, goos>>

source == args[1]

destination == args[2]

NoTask == [outcome |-> "none"]

NoTarget == [set |-> FALSE]

\* the content of a key: a key not yet observed holds any seed content
Contents(key) ==
  IF key \in DOMAIN bucket THEN {bucket[key]}
  ELSE IF seeds = "any" THEN AnyContent
  ELSE IF seeds = "few" THEN FewContents
  ELSE IF seeds = "raw" THEN RawContents
  ELSE {Absent}

Store(key, obj) == [k \in DOMAIN bucket \cup {key} |-> IF k = key THEN obj ELSE bucket[k]]

Issue(op, key) == issued \cup {<<run, op, key>>}

Fail(op, key) == failed \cup {<<run, op, key>>}

\* --------------------------------------------------------------------- main
Exit(code) ==
  /\ exitCode' = code
  /\ pc' = "exit"
  /\ faulty' = IF code = 0 THEN faulty ELSE faulty \cup {run}
  /\ UNCHANGED <<inputs, log, reader, failed, bucket, stack, task, run, issued>>

\* flag.NArg() != 2: usage, os.Exit(1)
MainUsage ==
  /\ pc = "main"
  /\ Len(args) # 2
  /\ Exit(1)
  /\ UNCHANGED <<cfgErr, target>>

\* CreateS3ClientFromArgs: the AWS configuration cannot be loaded, log.Fatal
MainConfigFail ==
  /\ pc = "main"
  /\ Len(args) = 2
  /\ cfgErr' = TRUE
  /\ Exit(1)
  /\ UNCHANGED target

\* SanitizePaths rejects the arguments: os.Exit(1)
MainInvalid ==
  /\ pc = "main"
  /\ Len(args) = 2
  /\ SanitizePaths(fs, source, destination).exit
  /\ Exit(1)
  /\ UNCHANGED <<cfgErr, target>>

\* SanitizePaths accepts the arguments: main calls Upload
MainUpload ==
  /\ pc = "main"
  /\ Len(args) = 2
  /\ LET r == SanitizePaths(fs, source, destination)
     IN  /\ ~r.exit
         /\ target' = [set |-> TRUE, s3Bucket |-> r.s3Bucket, s3Key |-> r.s3Key,
                       srcFile |-> r.srcFile]
         /\ stack' = <<[key |-> r.s3Key, path |-> r.srcFile]>>
  /\ pc' = "upload"
  /\ UNCHANGED <<inputs, log, reader, failed, bucket, task, cfgErr, exitCode, run, issued, faulty>>

\* ------------------------------------------------------------------- Upload
\* Upload drops one leading slash of the key it is called with
StripSlash(key) == IF HasPrefix(key, <<"/">>) THEN Tail(key) ELSE key

\* the recursive calls made for the entries of a directory, in listing order
Children(key, path, names) ==
  [i \in 1..Len(names) |->
     [key |-> key \o <<"/", names[i]>>, path |-> Join(path, names[i])]]

\* a nil response pointer
Nil == [nil |-> TRUE]

\* the regular file a path leads to, as it is now
FileNow(path) == fs[Stat(fs, path).node]

\* the first statements of UploadFile: its locals before the probe
NewTask(key, path, info) ==
  [key |-> key, path |-> path, size |-> info.size, modTime |-> info.modTime,
   content |-> info.hash, head |-> Nil, tagResponse |-> Nil, exists |-> FALSE,
   hash |-> "none", tags |-> <<>>, pre |-> Absent, put |-> FALSE, body |-> "none",
   outcome |-> "running"]

\* the reserved names of a platform
WindowsSystemFiles == {"$RECYCLE.BIN", "desktop.ini"}

DarwinSystemFiles == {".DS_Store"}

\* mutant of IgnoredNames: no name is reserved
IgnoredNames_None(os) == {}

\* the ignoredNames map Upload builds from runtime.GOOS
IgnoredNames(os) ==
  IF os = "windows" THEN WindowsSystemFiles
  ELSE IF os = "darwin" THEN DarwinSystemFiles
  ELSE {}

\* info.Name() of the FileInfo os.Stat returns: the base name of the path
InfoName(path) == Base(path)[1]

\* the log with one more line of this run
Logged(event, path) == Append(log, [run |-> run, event |-> event, path |-> path])

\* os.Stat of the path fails: "Unable to get information"
UploadStatFail ==
  /\ pc = "upload"
  /\ stack # <<>>
  /\ Stat(fs, Head(stack).path).err # "none"
  /\ stack' = Tail(stack)
  /\ log' = Logged("statFailed", Head(stack).path)
  /\ faulty' = faulty \cup {run}
  /\ UNCHANGED <<inputs, reader, failed, bucket, pc, task, exitCode, run, issued, cfgErr, target>>

\* the path is a directory whose entries are listed: one call per entry
UploadDir ==
  /\ pc = "upload"
  /\ stack # <<>>
  /\ LET frame == Head(stack)
         st    == Stat(fs, frame.path)
     IN  /\ st.err = "none"
         /\ fs[st.node].kind = "dir"
         /\ stack' = Children(StripSlash(frame.key), frame.path, ReadDir(fs, frame.path))
                       \o Tail(stack)
  /\ UNCHANGED <<inputs, log, reader, failed, bucket, pc, task, exitCode, run, issued, faulty, cfgErr,
                 target>>

\* the path is a directory that os.ReadDir cannot list
UploadDirUnreadable ==
  /\ pc = "upload"
  /\ stack # <<>>
  /\ LET st == Stat(fs, Head(stack).path)
     IN  st.err = "none" /\ fs[st.node].kind = "dir"
  /\ stack' = Tail(stack)
  /\ log' = Logged("unlistable", Head(stack).path)
  /\ faulty' = faulty \cup {run}
  /\ UNCHANGED <<inputs, reader, failed, bucket, pc, task, exitCode, run, issued, cfgErr, target>>

\* info.Mode()&os.ModeType != 0: "is an irregular file. Skipping..."
UploadIrregular ==
  /\ pc = "upload"
  /\ stack # <<>>
  /\ LET st == Stat(fs, Head(stack).path)
     IN  st.err = "none" /\ fs[st.node].kind = "device"
  /\ stack' = Tail(stack)
  /\ log' = Logged("irregular", Head(stack).path)
  /\ UNCHANGED <<inputs, reader, failed, bucket, pc, task, exitCode, run, issued, faulty, cfgErr,
                 target>>

\* the name is in ignoredNames: "is a restricted file. Skipping..."
UploadRestricted ==
  /\ pc = "upload"
  /\ stack # <<>>
  /\ LET st == Stat(fs, Head(stack).path)
     IN  st.err = "none" /\ fs[st.node].kind = "file"
  /\ InfoName(Head(stack).path) \in IgnoredNames(goos)
  /\ stack' = Tail(stack)
  /\ log' = Logged("restricted", Head(stack).path)
  /\ UNCHANGED <<inputs, reader, failed, bucket, pc, task, exitCode, run, issued, faulty, cfgErr,
                 target>>

\* the path is a regular file with no reserved name: UploadFile is called
UploadRegular ==
  /\ pc = "upload"
  /\ stack # <<>>
  /\ LET frame == Head(stack)
         st    == Stat(fs, frame.path)
     IN  /\ st.err = "none"
         /\ fs[st.node].kind = "file"
         /\ InfoName(frame.path) \notin IgnoredNames(goos)
         /\ task' = NewTask(StripSlash(frame.key), frame.path, fs[st.node])
         /\ log' = Logged("uploadFile", frame.path)
  /\ stack' = Tail(stack)
  /\ pc' = "head"
  /\ UNCHANGED <<inputs, reader, failed, bucket, exitCode, run, issued, faulty, cfgErr, target>>

\* the outermost call of Upload returns and main ends
MainReturn ==
  /\ pc = "upload"
  /\ stack = <<>>
  /\ Exit(0)
  /\ UNCHANGED <<cfgErr, target>>

\* --------------------------------------------------------------- UploadFile
\* the HeadObject response for what the key holds (Nil with a 404 error)
HeadResponse(obj) ==
  IF obj.state = "object"
  THEN [nil |-> FALSE, DeleteMarker |-> FALSE, ContentLength |-> obj.size,
        sha256 |-> obj.sha256]
  ELSE [nil |-> FALSE, DeleteMarker |-> TRUE, ContentLength |-> 0, sha256 |-> "none"]

\* the GetObjectTagging response for what the key holds
TaggingResponse(obj) == [nil |-> FALSE, TagSet |-> obj.tags]

\* mutant of SameSize: the sizes are not compared
SameSize_NoSizeCheck(head, size) == ~head.DeleteMarker

\* headObjectResponse.DeleteMarker == nil && info.Size() == *ContentLength
SameSize(head, size) == ~head.DeleteMarker /\ size = head.ContentLength

\* the loop over the tag set: the first modified-timestamp tag decides
TimestampMatches(tagSet, modTime) ==
  LET i == IndexOf([j \in 1..Len(tagSet) |-> tagSet[j].Key], "modified-timestamp")
  IN  i # 0 /\ tagSet[i].Value = modTime

\* mutant of ShortCircuit: forceHashCheck is not consulted
ShortCircuit_IgnoresForce(force, tagResponse, modTime) ==
  ~tagResponse.nil /\ TimestampMatches(tagResponse.TagSet, modTime)

\* exists after the probe: the timestamp short-circuit
ShortCircuit(force, tagResponse, modTime) ==
  ~force /\ ~tagResponse.nil /\ TimestampMatches(tagResponse.TagSet, modTime)

\* mutant of HashMatches: a stored hash never matches
HashMatches_Never(head, size, hash) == FALSE

\* exists after hashing: same size and the stored sha256 is the file's hash
HashMatches(head, size, hash) ==
  ~head.nil /\ SameSize(head, size) /\ head.sha256 # "none" /\ head.sha256 = hash

\* mutant of NewTags: only the first modified-timestamp tag is dropped
NewTags_DropsFirstOnly(tagResponse, modTime) ==
  LET old == IF tagResponse.nil THEN <<>> ELSE tagResponse.TagSet
      i   == IndexOf([j \in 1..Len(old) |-> old[j].Key], "modified-timestamp")
  IN  (IF i = 0 THEN old ELSE SubSeq(old, 1, i - 1) \o SubSeq(old, i + 1, Len(old)))
        \o <<Tag("modified-timestamp", modTime)>>

\* mutant of NewTags: the stored modified-timestamp tag is kept
NewTags_KeepsOldTimestamp(tagResponse, modTime) ==
  (IF tagResponse.nil THEN <<>> ELSE tagResponse.TagSet)
    \o <<Tag("modified-timestamp", modTime)>>

\* the tag set to write: the tags read, without modified-timestamp, then the
\* modified-timestamp of the local file
NewTags(tagResponse, modTime) ==
  (IF tagResponse.nil THEN <<>>
   ELSE SelectSeq(tagResponse.TagSet, LAMBDA tag : tag.Key # "modified-timestamp"))
    \o <<Tag("modified-timestamp", modTime)>>

\* what the key holds after a successful upload: the body, the metadata map
\* of the PutObjectInput, and no tags
Uploaded(size, hash) == Object(size, hash, <<>>)

\* mutant of Return: the end of a call of UploadFile ends the walk
Return_EndsWalk(outcome) ==
  /\ task' = [task EXCEPT !.outcome = outcome]
  /\ pc' = "exit"

\* UploadFile returns: back in the loop of Upload
Return(outcome) ==
  /\ task' = [task EXCEPT !.outcome = outcome]
  /\ pc' = "upload"

\* HeadObject fails with something else than a 404
HeadObjectError ==
  /\ pc = "head"
  /\ issued' = Issue("probeMetadata", task.key)
  /\ failed' = Fail("probeMetadata", task.key)
  /\ faulty' = faulty \cup {run}
  /\ Return("probeFailed")
  /\ UNCHANGED <<inputs, log, reader, bucket, stack, exitCode, run, cfgErr, target>>

\* HeadObject answers 404: no object, or a delete marker
HeadObjectNotFound ==
  /\ pc = "head"
  /\ \E obj \in Contents(task.key) :
       /\ obj.state \in {"absent", "marker"}
       /\ bucket' = Store(task.key, obj)
       /\ task' = [task EXCEPT !.pre = obj]
  /\ issued' = Issue("probeMetadata", task.key)
  /\ pc' = "hash"
  /\ UNCHANGED <<inputs, log, reader, failed, stack, exitCode, run, faulty, cfgErr, target>>

\* HeadObject answers: an object, or a response with DeleteMarker set
HeadObjectFound ==
  /\ pc = "head"
  /\ \E obj \in Contents(task.key) :
       /\ obj.state \in {"object", "marker"}
       /\ bucket' = Store(task.key, obj)
       /\ task' = [task EXCEPT !.pre = obj, !.head = HeadResponse(obj)]
       /\ pc' = IF SameSize(HeadResponse(obj), task.size) THEN "tags" ELSE "hash"
  /\ issued' = Issue("probeMetadata", task.key)
  /\ UNCHANGED <<inputs, log, reader, failed, stack, exitCode, run, faulty, cfgErr, target>>

\* GetObjectTagging, its error dropped, then the timestamp comparison
GetObjectTagging ==
  /\ pc = "tags"
  /\ \E ok \in BOOLEAN :
       LET tagResponse == IF ok THEN TaggingResponse(bucket[task.key]) ELSE Nil
           exists == ShortCircuit(forceHashCheck, tagResponse, task.modTime)
       IN  /\ task' = [task EXCEPT !.tagResponse = tagResponse, !.exists = exists,
                                   !.outcome = IF exists THEN "skipped" ELSE @]
           /\ pc' = IF exists THEN "upload" ELSE "hash"
           /\ failed' = IF ok THEN failed ELSE Fail("getTags", task.key)
  /\ issued' = Issue("getTags", task.key)
  /\ UNCHANGED <<inputs, log, reader, bucket, stack, exitCode, run, faulty, cfgErr, target>>

\* GetFileHash cannot open or read the file
GetFileHashError ==
  /\ pc = "hash"
  /\ faulty' = faulty \cup {run}
  /\ Return("unreadable")
  /\ UNCHANGED <<inputs, log, reader, failed, bucket, stack, exitCode, run, issued, cfgErr, target>>

\* GetFileHash succeeds: it opens the file and hashes what it holds now; the
\* stored hash is compared, the tag set is built
GetFileHash ==
  /\ pc = "hash"
  /\ LET hash   == FileNow(task.path).hash
         exists == task.exists \/ HashMatches(task.head, task.size, hash)
     IN  /\ task' = [task EXCEPT !.hash = hash, !.exists = exists,
                                 !.tags = NewTags(task.tagResponse, task.modTime)]
         /\ pc' = IF exists THEN "puttags" ELSE "put"
  /\ UNCHANGED <<inputs, log, reader, failed, bucket, stack, exitCode, run, issued, faulty, cfgErr, target>>

\* os.Open fails before the upload
OpenError ==
  /\ pc = "put"
  /\ faulty' = faulty \cup {run}
  /\ Return("openFailed")
  /\ UNCHANGED <<inputs, log, reader, failed, bucket, stack, exitCode, run, issued, cfgErr, target>>

\* no ProgressTrackingReader
NoReader == [open |-> FALSE]

\* the hash of no bytes
EmptyHash == "h0"

\* NewProgressTrackingReader(file, totalSize).  offset is the read position
\* of the file; sum, reads, reports, shown, percentDone and body record what
\* the underlying reads returned and what the reports printed; next is the
\* statement of Read that runs next.
NewProgressTrackingReader(totalSize) ==
  [open |-> TRUE, totalSize |-> totalSize, currentPosition |-> 0, lastRead |-> 0,
   offset |-> 0, eof |-> FALSE, next |-> "report",
   sum |-> 0, reads |-> 0, reports |-> 0, shown |-> 0, percentDone |-> 0,
   body |-> EmptyHash]

\* os.Open succeeds; s3Uploader.Upload is called with the reader as body
OpenFile ==
  /\ pc = "put"
  /\ reader' = NewProgressTrackingReader(task.size)
  /\ pc' = "body"
  /\ UNCHANGED <<inputs, log, failed, bucket, stack, task, exitCode, run, issued, faulty, cfgErr,
                 target>>

\* what int() makes of a float64 that is no number or infinite: the result
\* is implementation-dependent; amd64 gives the smallest integer, arm64 gives
\* 0 for NaN and the largest integer for +Inf
MinInt == -2147483647

MaxInt == 2147483647

\* int(math.Floor(float64(100*currentPosition) / float64(totalSize))): every
\* value a build can compute
PercentDone(currentPosition, totalSize) ==
  IF totalSize # 0 THEN {(100 * currentPosition) \div totalSize}
  ELSE IF currentPosition = 0 THEN {MinInt, 0}
  ELSE {MinInt, MaxInt}

\* mutant of Advance: the last read is not added
Advance_Forgets(r) == [r EXCEPT !.lastRead = 0]

\* the first statements of ReportProgress
Advance(r) == [r EXCEPT !.currentPosition = @ + r.lastRead, !.lastRead = 0]

\* strings.Repeat panics on a negative count: percentDone or 100-percentDone
RepeatPanics(percentDone) == percentDone < 0 \/ percentDone > 100

\* Read calls ReportProgress, which prints the bar
ReportProgress ==
  /\ pc = "body"
  /\ reader.next = "report"
  /\ ~reader.eof
  /\ LET r == Advance(reader)
     IN  \E percentDone \in PercentDone(r.currentPosition, r.totalSize) :
           /\ ~RepeatPanics(percentDone)
           /\ reader' = [r EXCEPT !.next = "read", !.reports = @ + 1,
                                  !.shown = r.currentPosition,
                                  !.percentDone = percentDone]
  /\ UNCHANGED <<inputs, log, failed, bucket, pc, stack, task, exitCode, run, issued, faulty, cfgErr,
                 target>>

\* ReportProgress panics in strings.Repeat: the process ends with exit code 2
ReportProgressPanic ==
  /\ pc = "body"
  /\ reader.next = "report"
  /\ ~reader.eof
  /\ LET r == Advance(reader)
     IN  \E percentDone \in PercentDone(r.currentPosition, r.totalSize) :
           /\ RepeatPanics(percentDone)
           /\ reader' = [r EXCEPT !.next = "panic", !.percentDone = percentDone]
  /\ pc' = "exit"
  /\ exitCode' = 2
  /\ faulty' = faulty \cup {run}
  /\ UNCHANGED <<inputs, log, failed, bucket, stack, task, run, issued, cfgErr, target>>

Min(a, b) == IF a < b THEN a ELSE b

\* the rest of Read: the read of the file returns up to MaxChunk bytes, or
\* io.EOF at the end of the file as it is now
Read ==
  /\ pc = "body"
  /\ reader.next = "read"
  /\ LET file      == FileNow(task.path)
         available == file.size - reader.offset
     IN  IF available <= 0
         THEN reader' = [reader EXCEPT !.next = "report", !.reads = @ + 1, !.eof = TRUE]
         ELSE \E readCount \in 1..Min(available, MaxChunk) :
                reader' = [reader EXCEPT
                             !.next = "report", !.reads = @ + 1,
                             !.lastRead = readCount,
                             !.offset = @ + readCount,
                             !.sum = @ + readCount,
                             !.body = IF reader.offset = 0 \/ reader.body = file.hash
                                      THEN file.hash ELSE "torn"]
  /\ UNCHANGED <<inputs, log, failed, bucket, pc, stack, task, exitCode, run, issued, faulty, cfgErr,
                 target>>

\* s3Uploader.Upload fails (a read of the file, or the store): the key keeps
\* what it held
PutObjectError ==
  /\ pc = "body"
  /\ issued' = Issue("putObject", task.key)
  /\ failed' = Fail("putObject", task.key)
  /\ faulty' = faulty \cup {run}
  /\ task' = [task EXCEPT !.put = TRUE, !.outcome = "uploadFailed"]
  /\ reader' = NoReader
  /\ pc' = "upload"
  /\ UNCHANGED <<inputs, log, bucket, stack, exitCode, run, cfgErr, target>>

\* s3Uploader.Upload succeeds: the body was read to its end
PutObject ==
  /\ pc = "body"
  /\ reader.eof
  /\ issued' = Issue("putObject", task.key)
  /\ bucket' = Store(task.key, Uploaded(reader.sum, task.hash))
  /\ task' = [task EXCEPT !.put = TRUE, !.body = reader.body]
  /\ reader' = NoReader
  /\ pc' = "puttags"
  /\ UNCHANGED <<inputs, log, failed, stack, exitCode, run, faulty, cfgErr, target>>

\* PutObjectTagging fails: "Unable to update tag"
PutObjectTaggingError ==
  /\ pc = "puttags"
  /\ issued' = Issue("putTags", task.key)
  /\ failed' = Fail("putTags", task.key)
  /\ Return("tagsFailed")
  /\ UNCHANGED <<inputs, log, reader, bucket, stack, exitCode, run, faulty, cfgErr, target>>

\* PutObjectTagging replaces the tag set of the object
PutObjectTagging ==
  /\ pc = "puttags"
  /\ issued' = Issue("putTags", task.key)
  /\ bucket' = Store(task.key, [bucket[task.key] EXCEPT !.tags = task.tags])
  /\ Return("done")
  /\ UNCHANGED <<inputs, log, reader, failed, stack, exitCode, run, faulty, cfgErr, target>>

\* the tool is started again with the same arguments
Rerun ==
  /\ pc = "exit"
  /\ run < MaxRuns
  /\ run' = run + 1
  /\ pc' = "main"
  /\ exitCode' = -1
  /\ task' = NoTask
  /\ cfgErr' = FALSE
  /\ target' = NoTarget
  /\ UNCHANGED <<inputs, log, reader, failed, bucket, stack, issued, faulty>>

\* the exit status of a process ended by SIGINT
Interrupted == 130

\* the process is killed while it runs; an upload in progress stores nothing
Interrupt ==
  /\ pc \notin {"main", "exit"}
  /\ pc' = "exit"
  /\ exitCode' = Interrupted
  /\ stack' = <<>>
  /\ reader' = NoReader
  /\ log' = Logged("interrupted", <<>>)
  /\ UNCHANGED <<inputs, failed, bucket, task, run, issued, faulty, cfgErr, target>>

\* another process rewrites a regular file, keeping its size or adding a byte
Modify ==
  /\ \E n \in DOMAIN fs :
       /\ fs[n].kind = "file"
       /\ fs[n].hash # "h2"
       /\ \E size \in {fs[n].size, fs[n].size + 1} :
            fs' = [fs EXCEPT ![n] = [kind |-> "file", size |-> size, modTime |-> "t2",
                                     hash |-> "h2"]]
  /\ UNCHANGED <<args, forceHashCheck, seeds, goos, bucket, pc, stack, task, cfgErr, target,
                 exitCode, run, issued, log, reader, failed, faulty>>

\* ------------------------------------------------------------ specifications
Sources == {<<"/", "a", "/", "b">>, <<"/", "a", "/", "b", "/">>}

TypicalArgs ==
  {<<s, d>> : s \in Sources,
              d \in {<<"s3://", "x", "/", "x", "/">>, <<"s3://", "x", "/", "x">>}}
    \cup {<<<<"/", "a", "/", "b", "/", "/">>, <<"s3://", "x", "/", "x", "/">>>>}
    \cup {<<<<"/", "a", "/", "b">>>>}

\* the state of the tool and of the bucket before the first run
InitRun ==
  /\ bucket = [k \in {} |-> Absent]
  /\ pc = "main"
  /\ stack = <<>>
  /\ task = NoTask
  /\ cfgErr = FALSE
  /\ target = NoTarget
  /\ exitCode = -1
  /\ run = 1
  /\ issued = {}
  /\ log = <<>>
  /\ reader = NoReader
  /\ failed = {}
  /\ faulty = {}

InitCommon ==
  /\ fs \in {TreeFile, TreeDir}
  /\ goos = "linux"
  /\ InitRun

\* typical arguments, any bucket
Init ==
  /\ args \in TypicalArgs
  /\ forceHashCheck \in BOOLEAN
  /\ seeds = "any"
  /\ InitCommon

Next ==
  \/ MainUsage
  \/ MainConfigFail
  \/ MainInvalid
  \/ MainUpload
  \/ UploadStatFail
  \/ UploadDir
  \/ UploadDirUnreadable
  \/ UploadRegular
  \/ MainReturn
  \/ HeadObjectError
  \/ HeadObjectNotFound
  \/ HeadObjectFound
  \/ GetObjectTagging
  \/ GetFileHashError
  \/ GetFileHash
  \/ OpenError
  \/ OpenFile
  \/ ReportProgress
  \/ Read
  \/ PutObjectError
  \/ PutObject
  \/ PutObjectTaggingError
  \/ PutObjectTagging
  \/ Rerun

Spec == Init /\ [][Next]_vars

\* the characters of a destination after its scheme
DestAlphabet == {"/", "x", "?", "#", "%", "%2F"}

Destinations ==
  {<<"s3://">> \o rest : rest \in StringsUpTo(DestAlphabet, MaxDestLen)}
    \cup {<<"gs://", "x", "/", "x">>, <<>>}

PathSources == Sources \cup {<<"/", "a", "/", "n">>, <<"/", "a", "/", "b", "/", "/">>}

\* any destination, an empty bucket
InitPaths ==
  /\ args \in {<<s, d>> : s \in PathSources, d \in Destinations} \cup {<<<<"/", "a", "/", "b">>>>}
  /\ forceHashCheck = FALSE
  /\ seeds = "empty"
  /\ InitCommon

SpecPaths == InitPaths /\ [][Next]_vars

\* typical arguments, an empty bucket, files that change while the tool runs
InitRace ==
  /\ args \in TypicalArgs
  /\ forceHashCheck = FALSE
  /\ seeds = "empty"
  /\ InitCommon

NextRace == Next \/ Modify \/ ReportProgressPanic

SpecRace == InitRace /\ [][NextRace]_vars

\* typical arguments, objects with any tag list
InitTags ==
  /\ args \in TypicalArgs
  /\ forceHashCheck \in BOOLEAN
  /\ seeds = "raw"
  /\ InitCommon

SpecTags == InitTags /\ [][Next]_vars

NextInterruptible == Next \/ Interrupt

\* typical arguments, a few bucket contents, runs that can be interrupted
InitRecover ==
  /\ args \in TypicalArgs
  /\ forceHashCheck \in BOOLEAN
  /\ seeds = "few"
  /\ InitCommon

SpecRecover == InitRecover /\ [][NextInterruptible]_vars

\* a regular file of a size and a content
File(size, hash) == [kind |-> "file", size |-> size, modTime |-> "t1", hash |-> hash]

\* the directories /, /a and /a/b
Stem == (<<>> :> Dir) @@ (<<"a">> :> Dir) @@ (<<"a", "b">> :> Dir)

\* /a/b holds the file c and the directory d, which holds a file c of two bytes
TreeSiblings ==
  Stem @@ (<<"a", "b", "c">> :> LocalFile) @@ (<<"a", "b", "d">> :> Dir)
    @@ (<<"a", "b", "d", "c">> :> File(2, "h2"))

\* /a/b holds the file c and a symbolic link l to it
TreeLinkToFile ==
  Stem @@ (<<"a", "b", "c">> :> LocalFile) @@ (<<"a", "b", "l">> :> Symlink(<<"a", "b", "c">>))

\* /a/b holds the directory d with a file c, and a symbolic link l to d
TreeLinkToDir ==
  Stem @@ (<<"a", "b", "d">> :> Dir) @@ (<<"a", "b", "d", "c">> :> LocalFile)
    @@ (<<"a", "b", "l">> :> Symlink(<<"a", "b", "d">>))

\* /a/b holds a symbolic link l to /a/b itself
TreeLinkToAncestor == Stem @@ (<<"a", "b", "l">> :> Symlink(<<"a", "b">>))

\* /a/b holds the file c and a device p
TreeDevice == Stem @@ (<<"a", "b", "c">> :> LocalFile) @@ (<<"a", "b", "p">> :> Device)

\* files and a directory with reserved names, at the source and below it
TreeReserved ==
  Stem @@ (<<"a", "desktop.ini">> :> LocalFile)
    @@ (<<"a", "b", ".DS_Store">> :> LocalFile)
    @@ (<<"a", "b", "$RECYCLE.BIN">> :> Dir)
    @@ (<<"a", "b", "$RECYCLE.BIN", "desktop.ini">> :> LocalFile)

\* /a/b holds the empty file c and the file d
TreeEmptyFile ==
  Stem @@ (<<"a", "b", "c">> :> File(0, EmptyHash)) @@ (<<"a", "b", "d">> :> LocalFile)

Platforms == {"linux", "windows", "darwin"}

\* the trees, platforms and arguments of the walks
WalkCases ==
  LET dir  == <<<<"/", "a", "/", "b">>, <<"s3://", "x", "/", "x">>>>
      file == <<<<"/", "a", "/", "desktop.ini">>, <<"s3://", "x", "/", "x", "/">>>>
  IN  {[fs |-> t, goos |-> "linux", args |-> dir] :
         t \in {TreeSiblings, TreeLinkToFile, TreeLinkToDir, TreeLinkToAncestor, TreeDevice,
                TreeEmptyFile}}
        \cup {[fs |-> TreeReserved, goos |-> os, args |-> a] : os \in Platforms, a \in {dir, file}}
        \cup {[fs |-> TreeFile, goos |-> "linux", args |-> a] :
                a \in {<<<<"/", "a", "/", "b">>>>,
                       <<<<"/", "a", "/", "b">>, <<"gs://", "x", "/", "x">>>>}}

\* walks of trees with links, devices, reserved names and empty files; an
\* empty bucket
InitWalk ==
  /\ \E c \in WalkCases : fs = c.fs /\ goos = c.goos /\ args = c.args
  /\ forceHashCheck = FALSE
  /\ seeds = "empty"
  /\ InitRun

NextWalk == Next \/ UploadIrregular \/ UploadRestricted \/ ReportProgressPanic

SpecWalk == InitWalk /\ [][NextWalk]_vars

\* ------------------------------------------------------------------- claims
\* a call of UploadFile has returned and no other has started since
TaskOver == task.outcome \notin {"none", "running"}

\* the probe of the task answered (404 or an object): task.pre is what the
\* key held when the task started
Probed == task.outcome \notin {"none", "probeFailed"} /\ pc # "head"

\* UploadFile decided that the remote copy is equivalent: no upload
Skips == task.outcome # "none" /\ task.exists

\* the remote object found by the probe, with the size of the local file
FoundSameSize == task.pre.state = "object" /\ task.pre.size = task.size

StoredTimestampMatches ==
  task.pre.state = "object" /\ TimestampMatches(task.pre.tags, task.modTime)

StoredHashMatches == task.pre.state = "object" /\ task.pre.sha256 = task.content

\* C1: if the first run completed without a failed start, probe, local read or
\* listing, or put, then the second run issues no putObject at all, whatever
\* fails in the second run.
C1_SecondRunIssuesNoPut ==
  (run >= 2 /\ 1 \notin faulty) => \A c \in issued : ~(c[1] = 2 /\ c[2] = "putObject")

\* C2 as stated: a task whose probe found an object of another size always
\* issues a putObject.
C2_SizeMismatchAlwaysPuts ==
  (TaskOver /\ Probed /\ task.pre.state = "object" /\ task.pre.size # task.size)
    => task.put

\* C2, amended: a task whose probe found an object of another size issues a
\* putObject whenever the local file could be read by GetFileHash and opened
\* for the upload, whatever the stored timestamp tag, the stored sha256 and
\* forceHashCheck are.
C2_SizeMismatchPutsWhenReadable ==
  (TaskOver /\ Probed /\ task.pre.state = "object" /\ task.pre.size # task.size
     /\ task.outcome \notin {"unreadable", "openFailed"})
    => (task.put /\ <<run, "putObject", task.key>> \in issued)

\* C2 witness: an object of another size whose timestamp tag and stored hash
\* both match the local file was uploaded again, with forceHashCheck off
C2_Witness ==
  /\ TaskOver
  /\ ~forceHashCheck
  /\ task.pre.state = "object"
  /\ task.pre.size # task.size
  /\ StoredTimestampMatches
  /\ StoredHashMatches
  /\ task.put

\* C3: with forceHashCheck set, whenever UploadFile decides to skip the upload
\* the local file has been read and hashed and the hash equals the sha256
\* stored on the remote object; the timestamp short-circuit is never taken.
C3_ForceSkipsOnlyOnHash ==
  (forceHashCheck /\ Skips)
    => /\ task.outcome # "skipped"
       /\ task.hash = task.content
       /\ task.pre.state = "object"
       /\ task.pre.sha256 = task.hash
       /\ ~task.put

\* C3 witness: with forceHashCheck set, a task whose remote timestamp tag
\* matched ended without upload after hashing the file
C3_Witness ==
  /\ forceHashCheck
  /\ TaskOver
  /\ Skips
  /\ StoredTimestampMatches
  /\ task.hash = task.content

\* C4: with forceHashCheck off, the probe answering and the local file
\* readable, a task issues no putObject exactly when the probe found an object
\* (no delete marker) of the local size whose stored modified-timestamp or
\* stored sha256 matches the local file.
C4_SynchronizedIff ==
  (~forceHashCheck /\ TaskOver /\ Probed /\ task.outcome \notin {"unreadable", "openFailed"})
    => (~task.put <=> (FoundSameSize /\ (StoredTimestampMatches \/ StoredHashMatches)))

\* the case of C5: the probe found an object of the local size whose stored
\* hash matches and whose timestamp tag is missing or stale
StaleTag == Probed /\ FoundSameSize /\ StoredHashMatches /\ ~StoredTimestampMatches

\* the key of the task holds an object tagged with the local modification time
RemoteTagIsFresh ==
  /\ task.key \in DOMAIN bucket
  /\ bucket[task.key].state = "object"
  /\ TimestampMatches(bucket[task.key].tags, task.modTime)

\* C5 as stated: a stale timestamp tag on an object with a matching hash is
\* always fresh after the task, and nothing is uploaded.
C5_StaleTagAlwaysRewritten == (TaskOver /\ StaleTag) => (~task.put /\ RemoteTagIsFresh)

\* C5, amended: with a matching stored hash and a stale timestamp tag the
\* task issues no putObject, and when the local read and the putTags call
\* succeed the remote modified-timestamp tag equals the local modification
\* time after the task.
C5_StaleTagRewrittenUnlessFailure ==
  (TaskOver /\ StaleTag)
    => /\ ~task.put
       /\ task.outcome \notin {"unreadable", "tagsFailed"} => RemoteTagIsFresh

\* C5 witness: a stale tag "t2" was replaced by the local time without upload
C5_Witness ==
  /\ TaskOver
  /\ StaleTag
  /\ Tag("modified-timestamp", "t2") \in {task.pre.tags[i] : i \in 1..Len(task.pre.tags)}
  /\ task.outcome = "done"
  /\ ~task.put
  /\ RemoteTagIsFresh

OtherTags(tags) == {tags[i] : i \in {j \in 1..Len(tags) : tags[j].Key # "modified-timestamp"}}

\* C6: when a task skips the upload and writes the tag set back, the tags
\* other than modified-timestamp are the ones the object had before the task,
\* also when GetObjectTagging failed.
C6_OtherTagsPreserved ==
  (TaskOver /\ task.outcome = "done" /\ ~task.put)
    => OtherTags(bucket[task.key].tags) = OtherTags(task.pre.tags)

\* C7: in every state after a successful putObject of the task, the object
\* carries the hash of the file and its modification time.
C7_UploadCarriesHashAndTimestamp ==
  (task.outcome \notin {"none", "uploadFailed"} /\ task.put)
    => (bucket[task.key].sha256 = task.content /\ RemoteTagIsFresh)

\* the text of the destination after its scheme and host
DestKeyText ==
  LET text == Tail(destination)
  IN  IF IndexOf(text, "/") = 0 THEN <<>> ELSE SubSeq(text, IndexOf(text, "/"), Len(text))

\* the path of the destination parsed as a URL
DestPath == ParseURL(destination).Path

\* the last name of a path
LastName(p) == <<Components(p)[Len(Components(p))]>>

DropLast(s) == SubSeq(s, 1, Len(s) - 1)

\* the three cases of path resolution, for a destination key and whether the
\* destination counts as ending in a slash
Resolution(key, destIsDir) ==
  LET srcIsDir == HasSuffix(source, <<"/">>)
  IN  /\ (srcIsDir /\ destIsDir)
           => (target.s3Key = DropLast(key) /\ target.srcFile = DropLast(source))
      /\ (~srcIsDir /\ destIsDir)
           => (target.s3Key = key \o LastName(source) /\ target.srcFile = source)
      /\ (~srcIsDir /\ ~destIsDir)
           => (target.s3Key = key /\ target.srcFile = source)

\* C8 as stated: the cases are decided by the last character of the
\* destination, and the key is the text of the destination after the host.
C8_ResolutionOfDestinationText ==
  target.set => Resolution(DestKeyText, HasSuffix(destination, <<"/">>))

\* C8, amended: the cases are decided by the last character of the path of
\* the destination parsed as a URL (query and fragment cut off, percent
\* escapes decoded), and the key is that path: both ending in "/" strips
\* both slashes, only the path ending in "/" appends the base name of the
\* source, neither ending in "/" keeps both; with the leading slash stripped,
\* /a/b to s3://x/x/ gives x/b, /a/b/ to s3://x/x/ gives x, /a/b to s3://x/x
\* gives x.
C8_ResolutionOfUrlPath ==
  target.set =>
    /\ Resolution(DestPath, HasSuffix(DestPath, <<"/">>))
    /\ (source = <<"/", "a", "/", "b">> /\ destination = <<"s3://", "x", "/", "x", "/">>)
         => StripSlash(target.s3Key) = <<"x", "/", "b">>
    /\ (source = <<"/", "a", "/", "b", "/">> /\ destination = <<"s3://", "x", "/", "x", "/">>)
         => StripSlash(target.s3Key) = <<"x">>
    /\ (source = <<"/", "a", "/", "b">> /\ destination = <<"s3://", "x", "/", "x">>)
         => StripSlash(target.s3Key) = <<"x">>

\* C8 witness: /a/b was resolved against s3://x/x/ to the key x/b
C8_Witness ==
  /\ target.set
  /\ source = <<"/", "a", "/", "b">>
  /\ destination = <<"s3://", "x", "/", "x", "/">>
  /\ StripSlash(target.s3Key) = <<"x", "/", "b">>
  /\ target.srcFile = source

\* C9: no key passed to a store operation begins with "/".
C9_KeysNeverStartWithSlash == \A c \in issued : ~HasPrefix(c[3], <<"/">>)

NoStoreCallThisRun == \A c \in issued : c[1] # run

\* the validation failures C10 names
InvalidAsStated ==
  \/ ~HasPrefix(destination, <<"s3://">>)
  \/ ParseURL(destination).Host = <<>>
  \/ Stat(fs, source).err = "notexist"
  \/ (HasSuffix(source, <<"/">>) /\ ~HasSuffix(destination, <<"/">>))

\* C10 as stated: the run ends with exit code 1 and without store call when
\* the destination is not s3 or has no host, the source does not exist, or
\* the source ends in "/" and the destination does not; in every other case
\* it ends with exit code 0 (for a run started with two arguments and a
\* loadable AWS configuration).
C10_ExitCodeAsStated ==
  (pc = "exit" /\ Len(args) = 2 /\ ~cfgErr) =>
    IF InvalidAsStated
    THEN exitCode = 1 /\ NoStoreCallThisRun
    ELSE exitCode = 0

\* the validation failures of SanitizePaths
Invalid ==
  \/ ~HasPrefix(destination, <<"s3://">>)
  \/ Stat(fs, source).err = "notexist"
  \/ ParseURL(destination).err
  \/ ParseURL(destination).Host = <<>>
  \/ (HasSuffix(source, <<"/">>) /\ ~HasSuffix(DestPath, <<"/">>))

\* the exit codes of runs in which ReportProgress does not panic: the run
\* ends with exit code 1 and without any store call when the number of
\* arguments is not two, the AWS configuration cannot be loaded, the
\* destination does not start with s3://, cannot be parsed as a URL or has no
\* host, the source does not exist, or the source ends in "/" and the URL
\* path of the destination does not; in every other case it ends with exit
\* code 0, whatever error is returned for single files.
C10_ExitCode ==
  /\ exitCode = 1 => NoStoreCallThisRun
  /\ pc = "exit" =>
       IF Len(args) # 2 \/ cfgErr THEN exitCode = 1
       ELSE IF Invalid THEN exitCode = 1
       ELSE exitCode = 0

\* a directory's contents aimed at a single key ended the run with exit
\* code 1 before any store call
C10_Witness ==
  /\ pc = "exit"
  /\ exitCode = 1
  /\ Len(args) = 2
  /\ ~cfgErr
  /\ HasPrefix(destination, <<"s3://">>)
  /\ ~ParseURL(destination).err
  /\ ParseURL(destination).Host # <<>>
  /\ Stat(fs, source).err = "none"
  /\ HasSuffix(source, <<"/">>)
  /\ NoStoreCallThisRun

\* ------------------------------------------------------- claims on the walk
\* the lines of the log of this run about an event
LinesNow(event) == {i \in 1..Len(log) : log[i].run = run /\ log[i].event = event}

\* the node the source path leads to
SourceNode == Stat(fs, target.srcFile).node

\* the reserved-name list of a platform, as the claims give it
ReservedNames(os) ==
  CASE os = "windows" -> {"$RECYCLE.BIN", "desktop.ini"}
    [] os = "darwin"  -> {".DS_Store"}
    [] OTHER          -> {}

\* the regular files of the tree at or below the source path whose name is
\* not reserved on the platform
WantedFiles ==
  {n \in DOMAIN fs :
     /\ fs[n].kind = "file"
     /\ Len(n) >= Len(SourceNode)
     /\ SubSeq(n, 1, Len(SourceNode)) = SourceNode
     /\ n[Len(n)] \notin ReservedNames(goos)}

\* how often UploadFile was called in this run for a file
TimesHanded(n) ==
  Cardinality({i \in LinesNow("uploadFile") : Stat(fs, log[i].path).node = n})

\* a directory above the file could not be listed in this run
BelowUnlisted(n) ==
  \E i \in LinesNow("unlistable") :
    LET d == Stat(fs, log[i].path).node
    IN  Len(d) < Len(n) /\ SubSeq(n, 1, Len(d)) = d

\* C11: UploadFile is never called twice for a regular file in one run, and
\* when the run has ended it was called exactly once for every regular file
\* at or below the source path that has no reserved name and no unlistable
\* directory above it.
C11_EveryFileHandedOnce ==
  target.set =>
    \A n \in WantedFiles :
      /\ TimesHanded(n) <= 1
      /\ (pc = "exit" /\ ~BelowUnlisted(n)) => TimesHanded(n) = 1

\* what a path names without following links: its names up to the i-th
Prefix(path, i) == SubSeq(Components(path), 1, i)

\* the path itself names a symbolic link or a device
IsIrregular(path) ==
  LET n == Components(path)
  IN  n \in DOMAIN fs /\ fs[n].kind \in {"symlink", "device"}

\* the path leads through a symbolic link or a device
ThroughIrregular(path) ==
  \E i \in 1..(Len(Components(path)) - 1) :
    Prefix(path, i) \in DOMAIN fs /\ fs[Prefix(path, i)].kind \in {"symlink", "device"}

\* C12: a path that names a symbolic link or a device is logged as irregular
\* and skipped: UploadFile is not called for it, no call of Upload is made
\* for a path that leads through it, and no store operation is issued for
\* its key.
C12_IrregularSkipped ==
  /\ \A i \in 1..Len(log) :
       /\ IsIrregular(log[i].path) => log[i].event = "irregular"
       /\ ~ThroughIrregular(log[i].path)
  /\ \A i \in 1..Len(stack) : ~ThroughIrregular(stack[i].path)
  /\ (task.outcome # "none" /\ IsIrregular(task.path))
       => \A c \in issued : c[3] # task.key

\* the key Upload computes for the entry reached from a key through names
RECURSIVE KeyDown(_, _)
KeyDown(key, names) ==
  IF names = <<>> THEN StripSlash(key)
  ELSE KeyDown(StripSlash(key) \o <<"/", Head(names)>>, Tail(names))

\* the regular files at or below the source path whose name is reserved
ReservedFiles ==
  {n \in DOMAIN fs :
     /\ fs[n].kind = "file"
     /\ Len(n) >= Len(SourceNode)
     /\ SubSeq(n, 1, Len(SourceNode)) = SourceNode
     /\ n[Len(n)] \in ReservedNames(goos)}

\* the key of a file at or below the source path
KeyOf(n) == KeyDown(target.s3Key, SubSeq(n, Len(SourceNode) + 1, Len(n)))

\* C13: UploadFile is never called for a regular file whose name is in the
\* reserved-name list of the platform, and neither putObject nor putTags is
\* issued for its key, at any depth and when it is the source path itself.
C13_ReservedNeverUploaded ==
  target.set =>
    \A n \in ReservedFiles :
      /\ \A i \in 1..Len(log) :
           Stat(fs, log[i].path).node = n => log[i].event = "restricted"
      /\ task.outcome # "none" => Stat(fs, task.path).node # n
      /\ \A c \in issued : c[3] # KeyOf(n)

\* C13 witness: on windows a run ended after skipping desktop.ini two levels
\* below the source path and uploading .DS_Store, reserved on darwin only
C13_Witness ==
  /\ pc = "exit"
  /\ goos = "windows"
  /\ \E i \in LinesNow("restricted") :
       log[i].path = <<"/", "a", "/", "b", "/", "$RECYCLE.BIN", "/", "desktop.ini">>
  /\ \E c \in issued : c[2] = "putObject"

\* C13 witness at the source: on windows the source path desktop.ini itself
\* was skipped and the run ended without any store operation
C13_WitnessSource ==
  /\ pc = "exit"
  /\ goos = "windows"
  /\ source = <<"/", "a", "/", "desktop.ini">>
  /\ LinesNow("restricted") # {}
  /\ issued = {}

\* a step in which the current call of UploadFile fails
FileFails ==
  /\ task.outcome = "running"
  /\ task'.outcome \in {"probeFailed", "unreadable", "openFailed", "uploadFailed"}

\* a step in which a path cannot be inspected or a directory cannot be listed
DirectoryFails ==
  /\ Len(log') = Len(log) + 1
  /\ log'[Len(log')].event \in {"statFailed", "unlistable"}

\* the tree holds neither links nor devices
PlainTree == \A n \in DOMAIN fs : fs[n].kind \in {"file", "dir"}

\* C14: a failing probe, local read, open or upload of a file, and a path
\* or directory that cannot be inspected or listed, change nothing but the
\* failing entry: the pending calls for the other entries of the directory
\* and of its ancestors stay as they are, the bucket keeps its content, and
\* the walk goes on with the next entry; so a run of a tree of files and
\* directories that ends normally has called UploadFile exactly once for
\* every file with no unlisted directory above it, failures or not.
C14_FailuresAreLocal ==
  /\ [][/\ FileFails
          => (stack' = stack /\ bucket' = bucket /\ pc' = "upload" /\ exitCode' = exitCode)
        /\ DirectoryFails
          => (stack' = Tail(stack) /\ bucket' = bucket /\ pc' = "upload"
                /\ exitCode' = exitCode)]_vars
  /\ [](( pc = "exit" /\ exitCode = 0 /\ target.set /\ PlainTree)
          => \A n \in WantedFiles : ~BelowUnlisted(n) => TimesHanded(n) = 1)

\* C14 witness: in one run the probe of /a/b/c failed and its sibling
\* directory d was walked and the file in it uploaded and tagged
C14_Witness ==
  /\ run = 1
  /\ <<1, "probeMetadata", <<"x", "/", "c">>>> \in issued
  /\ \A c \in issued : c[3] = <<"x", "/", "c">> => c[2] = "probeMetadata"
  /\ <<"x", "/", "c">> \notin DOMAIN bucket
  /\ task.outcome = "done"
  /\ task.path = <<"/", "a", "/", "b", "/", "d", "/", "c">>
  /\ task.put

\* ------------------------------------------------------- claims on recovery
\* a run was interrupted
WasInterrupted(r) == \E i \in 1..Len(log) : log[i].run = r /\ log[i].event = "interrupted"

\* the first run was interrupted and the second one ran to its end with no
\* store call failing and no failing start, local read or listing
Recovered ==
  /\ run = 2
  /\ pc = "exit"
  /\ exitCode = 0
  /\ WasInterrupted(1)
  /\ \A c \in failed : c[1] # 2
  /\ 2 \notin faulty

\* the key of the file holds an object of its size tagged with its time
SizeAndTagMatch(n) ==
  /\ KeyOf(n) \in DOMAIN bucket
  /\ bucket[KeyOf(n)].state = "object"
  /\ bucket[KeyOf(n)].size = fs[n].size
  /\ TimestampMatches(bucket[KeyOf(n)].tags, fs[n].modTime)

\* the interrupted run uploaded the file and the second run did not
NotUploadedAgain(n) ==
  (<<1, "putObject", KeyOf(n)>> \in issued \ failed)
    => <<2, "putObject", KeyOf(n)>> \notin issued

\* C15 as stated: after an interrupted run and a complete second run without
\* failure every regular file has a remote object whose size and stored
\* sha256 match the file and whose modified-timestamp tag is the file's
\* modification time, and no file uploaded by the first run is uploaded again.
C15_RecoveryAsStated ==
  Recovered =>
    \A n \in WantedFiles :
      /\ SizeAndTagMatch(n)
      /\ bucket[KeyOf(n)].sha256 = fs[n].hash
      /\ NotUploadedAgain(n)

\* C15, amended: after an interrupted run and a complete second run without
\* failure every regular file has a remote object of its size whose
\* modified-timestamp tag is the file's modification time, and no file
\* uploaded by the first run is uploaded again; the stored sha256 is the
\* file's hash when forceHashCheck is set or one of the runs uploaded the
\* file, while without forceHashCheck an object found with the file's size
\* and a matching timestamp tag keeps the sha256 it had.
C15_Recovery ==
  Recovered =>
    \A n \in WantedFiles :
      /\ SizeAndTagMatch(n)
      /\ (forceHashCheck
            \/ \E c \in issued \ failed : c[2] = "putObject" /\ c[3] = KeyOf(n))
           => bucket[KeyOf(n)].sha256 = fs[n].hash
      /\ NotUploadedAgain(n)

\* C15 witness: the first run was interrupted after its putObject and before
\* putTags; the second run wrote the tags without uploading again
C15_Witness ==
  /\ Recovered
  /\ \E n \in WantedFiles :
       /\ <<1, "putObject", KeyOf(n)>> \in issued \ failed
       /\ <<1, "putTags", KeyOf(n)>> \notin issued
       /\ <<2, "putTags", KeyOf(n)>> \in issued
       /\ <<2, "putObject", KeyOf(n)>> \notin issued
       /\ SizeAndTagMatch(n)

\* ----------------------------------------------------- claims on the upload
\* C16: after every successful putObject of a task the sha256 stored on the
\* object is the hash of the bytes that were uploaded, also when the file is
\* rewritten between the hashing read and the upload read.
C16_StoredHashIsHashOfBody ==
  (task.outcome \notin {"none", "uploadFailed"} /\ task.put)
    => bucket[task.key].sha256 = task.body

\* C18: every progress report shows the sum of the byte counts that the
\* reads completed before it returned; there is one report per read of the
\* file, made before it; when the read that finds the end of the file has
\* returned, the last report showed the total size; and the count shown
\* never decreases.
C18_ReportsShowBytesRead ==
  /\ [](reader.open =>
          /\ reader.next = "read" => reader.shown = reader.sum
          /\ reader.next = "report" => reader.shown = reader.sum - reader.lastRead
          /\ reader.reports = reader.reads + (IF reader.next = "read" THEN 1 ELSE 0)
          /\ reader.eof => (reader.shown = reader.sum /\ reader.shown = reader.totalSize))
  /\ [][(reader.open /\ reader'.open) => reader'.shown >= reader.shown]_vars

\* C18 witness: a file of two bytes was read in two reads of one byte and a
\* third that found its end; three reports were made, the last showed 2
C18_Witness ==
  /\ reader.open
  /\ reader.eof
  /\ reader.totalSize = 2
  /\ reader.reads = 3
  /\ reader.reports = 3
  /\ reader.shown = 2

\* C20: the percentage computed by every call of ReportProgress lies between
\* 0 and 100, for an empty file and for a file that grows too.
C20_PercentInRange == reader.open => reader.percentDone \in 0..100

\* C17: with forceHashCheck off, a task whose probe found an object of the
\* local size tagged with the local modification time ends without reading
\* the file, without putObject and without putTags, and the object is as it
\* was.
C17_TimestampShortCircuit ==
  (~forceHashCheck /\ TaskOver /\ Probed /\ FoundSameSize /\ StoredTimestampMatches)
    => /\ task.outcome = "skipped"
       /\ task.hash = "none"
       /\ ~task.put
       /\ <<run, "putObject", task.key>> \notin issued
       /\ <<run, "putTags", task.key>> \notin issued
       /\ bucket[task.key] = task.pre

\* the tags of a list that have the key modified-timestamp
TimestampTags(tags) == {i \in 1..Len(tags) : tags[i].Key = "modified-timestamp"}

\* C19: the tag set of every putTags call holds exactly one tag with the key
\* modified-timestamp, and its value is the local modification time,
\* whatever tags the object had; a successful call leaves that set on the
\* object.
C19_OneTimestampTagWritten ==
  (task.outcome \in {"running", "done", "tagsFailed"}
     /\ (pc = "puttags" \/ task.outcome # "running"))
    => /\ Cardinality(TimestampTags(task.tags)) = 1
       /\ \A i \in TimestampTags(task.tags) : task.tags[i].Value = task.modTime
       /\ task.outcome = "done" => bucket[task.key].tags = task.tags

\* C19 witness: an object that was found with two modified-timestamp tags
\* and a matching hash has exactly one after the task, without upload
C19_Witness ==
  /\ task.outcome = "done"
  /\ ~task.put
  /\ Cardinality(TimestampTags(task.pre.tags)) = 2
  /\ ~task.tagResponse.nil
  /\ Cardinality(TimestampTags(bucket[task.key].tags)) = 1

====
